---- MODULE Spec2Model ----
(***************************************************************************)
(* Route planning (containers.calculateRoute) and route recording          *)
(* (containers.saveRoute with db.saveRoute / db.saveRouteSavings) of the   *)
(* smart-routes backend.                                                   *)
(*                                                                         *)
(* Units.  Coordinates are fixed-point numbers in units of 1e-4 degree.    *)
(* Distances are whole metres (the code's kilometres times 1000).          *)
(* Durations are in units of 1/120000 minute, the smallest unit in which   *)
(* both seconds/60 and kilometres/40 are whole numbers.                    *)
(***************************************************************************)
EXTENDS Integers, Sequences, FiniteSets, TLC

\* Bounds of the model.
MaxContainers == 2
MaxOps == 3

(***************************************************************************)
(* IEEE-754 doubles, as far as the code depends on them: an ordinary       *)
(* finite value, a finite value so large that its square overflows         *)
(* (such as 1e200), Infinity, and NaN.                                     *)
(***************************************************************************)
Fin(v) == [k |-> "fin", v |-> v]
Huge == [k |-> "huge", v |-> 0]
Infinity == [k |-> "inf", v |-> 0]
NaN == [k |-> "nan", v |-> 0]

\* a is neither NaN nor an infinity
IsFinite(a) == a.k \in {"fin", "huge"}

\* a - b
Sub(a, b) ==
    IF a.k = "nan" \/ b.k = "nan" THEN NaN
    ELSE IF a.k = "inf" /\ b.k = "inf" THEN NaN
    ELSE IF a.k = "inf" \/ b.k = "inf" THEN Infinity
    ELSE IF a.k = "huge" /\ b.k = "huge" THEN Fin(0)
    ELSE IF a.k = "huge" \/ b.k = "huge" THEN Huge
    ELSE Fin(a.v - b.v)

\* a * a
Square(a) ==
    IF a.k = "nan" THEN NaN
    ELSE IF a.k \in {"inf", "huge"} THEN Infinity
    ELSE Fin(a.v * a.v)

\* a + b, for the non-negative operands the distance computation adds
Add(a, b) ==
    IF a.k = "nan" \/ b.k = "nan" THEN NaN
    ELSE IF a.k = "inf" \/ b.k = "inf" THEN Infinity
    ELSE Fin(a.v + b.v)

\* a < b: false whenever an operand is NaN, and Infinity < Infinity is false
Less(a, b) ==
    /\ a.k = "fin"
    /\ \/ b.k = "inf"
       \/ b.k = "fin" /\ a.v < b.v

\* the integer square root, floor(sqrt(x)), by bisection on lo..hi
RECURSIVE ISqrtIn(_, _, _)
ISqrtIn(x, lo, hi) ==
    IF lo >= hi THEN lo
    ELSE LET mid == (lo + hi + 1) \div 2
         IN IF mid * mid <= x THEN ISqrtIn(x, mid, hi) ELSE ISqrtIn(x, lo, mid - 1)

ISqrt(x) == ISqrtIn(x, 0, 46340)

(***************************************************************************)
(* Inputs of calculateRoute.                                               *)
(***************************************************************************)
\* The garage: lat -29.1750, lng -51.1850
CODECA == [lat |-> Fin(-291750), lng |-> Fin(-511850), src |-> 0]

\* What a client can send as a latitude or longitude (the input is z.any()):
\* a decimal string, a string that is no number, the string "Infinity",
\* the string "1e200", or nothing at all.
Decimal(v) == [kind |-> "decimal", fixed |-> v]
NotANumber == [kind |-> "text", fixed |-> 0]
InfinityText == [kind |-> "infinity", fixed |-> 0]
HugeText == [kind |-> "1e200", fixed |-> 0]
Missing == [kind |-> "undefined", fixed |-> 0]

\* parseFloat(String(x))
ParseFloat(raw) ==
    CASE raw.kind = "decimal" -> Fin(raw.fixed)
      [] raw.kind = "infinity" -> Infinity
      [] raw.kind = "1e200" -> Huge
      [] OTHER -> NaN

\* The containers a request may name.  The first two are equally far from
\* the garage (one unit north, one unit south), the third is container 1 of
\* the documented scenario; the others carry an unusable coordinate.
ContainerPool ==
    { [latitude |-> Decimal(-291749), longitude |-> Decimal(-511850)],
      [latitude |-> Decimal(-291751), longitude |-> Decimal(-511850)],
      [latitude |-> Decimal(-291800), longitude |-> Decimal(-511900)],
      [latitude |-> NotANumber, longitude |-> Decimal(-511850)],
      [latitude |-> Decimal(-291749), longitude |-> InfinityText],
      [latitude |-> HugeText, longitude |-> Decimal(-511850)],
      [latitude |-> Decimal(-291751), longitude |-> Missing] }

ContainerLists == UNION { [1..n -> ContainerPool] : n \in 0..MaxContainers }

(***************************************************************************)
(* What the routing provider can answer to one request.                    *)
(***************************************************************************)
NoGeometry == [present |-> FALSE, type |-> "", hasCoordinates |-> FALSE, coordinates |-> <<>>]
LineString(coords) ==
    [present |-> TRUE, type |-> "LineString", hasCoordinates |-> TRUE, coordinates |-> coords]

\* Two provider geometries, as [lng, lat] pairs
RoadA == << <<-511850, -291750>>, <<-511860, -291760>>, <<-511855, -291770>> >>
RoadB == << <<-511870, -291780>> >>

Route(geometry, metres, seconds) ==
    [geometry |-> geometry, distance |-> metres, duration |-> seconds]

Answer(code, routes) == [net |-> "ok", code |-> code, routes |-> routes]

Responses ==
    { \* fetch() rejects; response.json() throws
      [net |-> "reject", code |-> "", routes |-> <<>>],
      [net |-> "badjson", code |-> "", routes |-> <<>>],
      \* a provider error code; "Ok" without a route
      Answer("NoRoute", <<>>),
      Answer("Ok", <<>>),
      \* "Ok" with a route whose geometry is missing, is no line string,
      \* has no coordinates member, or has an empty coordinates array
      Answer("Ok", << Route(NoGeometry, 1500, 120) >>),
      Answer("Ok", << Route([LineString(RoadA) EXCEPT !.type = "Point"], 1500, 120) >>),
      Answer("Ok", << Route([LineString(<<>>) EXCEPT !.hasCoordinates = FALSE], 1500, 120) >>),
      Answer("Ok", << Route(LineString(<<>>), 1500, 120) >>),
      \* well-formed answers: 1.5 km in 2 min, and 40 m in 6 s
      Answer("Ok", << Route(LineString(RoadA), 1500, 120) >>),
      Answer("Ok", << Route(LineString(RoadB), 40, 6) >>) }

(***************************************************************************)
(* State.                                                                  *)
(***************************************************************************)
VARIABLES
    \* calculateRoute, one request
    pc,                 \* "idle", "sequencing", "legs", "fetch", "done", "error"
    containers,         \* input.containers
    waypoints,          \* the parsed containers
    optimizedRoute,     \* the tour under construction
    visited,            \* indices of the containers placed in the tour
    i,                  \* the leg loop's index (from 1)
    allPolylinePoints,
    totalDistance,
    totalDuration,
    requests,           \* history: the legs whose provider request was issued
    legLog,             \* history: per finished leg, the answer, the branch taken
                        \* and what the leg added to the polyline and the totals
    result,             \* the value returned, NoResult until then
    \* saveRoute, concurrent requests
    dbUrl,              \* whether process.env.DATABASE_URL is set
    db,                 \* _db: "null" or "conn"
    routeHistory,       \* rows of table routeHistory, in insertion order
    routeSavings,       \* rows of table routeSavings, in insertion order
    sv,                 \* per client, the state of its saveRoute request
    calls,              \* history: one record per saveRoute request: how it ended,
                        \* how its two writes went ("pending" until tried), the id
                        \* of the row it inserted and the routeId it returned
    users,              \* rows of table users, in insertion order
    au,                 \* per client, the state of its register or login request
    authCalls,          \* number of register and login requests made so far
    tokens              \* history: one record per session cookie set

calcVars == <<pc, containers, waypoints, optimizedRoute, visited, i,
              allPolylinePoints, totalDistance, totalDuration, requests, legLog, result>>
saveVars == <<dbUrl, db, routeHistory, routeSavings, sv, calls>>
authVars == <<users, au, authCalls, tokens>>
vars == <<calcVars, saveVars, authVars>>

Clients == {"c1", "c2"}

\* Math.round(input.totalDuration) of the durations a client may send, in
\* tenths of a minute
DurationInputs == {14, 15}

NoResult ==
    [returned |-> FALSE, polylinePoints |-> <<>>, distance |-> 0, duration |-> 0,
     totalDistance |-> 0, totalDuration |-> 0]

IdleRequest == [pc |-> "idle", call |-> 0, totalDuration |-> 0, routeId |-> 0]

\* a bcrypt hash: the password it was made of and the salt drawn for it
NoHash == [of |-> "", salt |-> 0]

\* undefined, as read from table users
NoUser == [id |-> 0, email |-> "", passwordHash |-> NoHash, name |-> "",
           role |-> "", lastSignedIn |-> 0,
           registered |-> [name |-> "", role |-> ""]]

IdleAuth == [pc |-> "idle", op |-> "", req |-> 0, email |-> "", password |-> "",
             name |-> "", role |-> "", passwordHash |-> NoHash, user |-> NoUser]

Init ==
    /\ pc = "idle"
    /\ containers = <<>>
    /\ waypoints = <<>>
    /\ optimizedRoute = <<>>
    /\ visited = {}
    /\ i = 0
    /\ allPolylinePoints = <<>>
    /\ totalDistance = 0
    /\ totalDuration = 0
    /\ requests = <<>>
    /\ legLog = <<>>
    /\ result = NoResult
    /\ dbUrl \in BOOLEAN
    /\ db = "null"
    /\ routeHistory = <<>>
    /\ routeSavings = <<>>
    /\ sv = [c \in Clients |-> IdleRequest]
    /\ calls = <<>>
    /\ users = <<>>
    /\ au = [c \in Clients |-> IdleAuth]
    /\ authCalls = 0
    /\ tokens = <<>>

(***************************************************************************)
(* calculateRoute: validation and sequencing.                              *)
(***************************************************************************)
\* a faulty variant of CalcRejectEmpty: the empty check is missing, and the
\* request goes on with no waypoint
CalcAcceptEmpty ==
    /\ pc = "idle"
    /\ \E cs \in ContainerLists :
        /\ Len(cs) = 0
        /\ containers' = cs
    /\ waypoints' = <<>>
    /\ optimizedRoute' = <<CODECA>>
    /\ visited' = {}
    /\ pc' = "sequencing"
    /\ UNCHANGED <<i, allPolylinePoints, totalDistance, totalDuration, requests,
                   legLog, result>>
    /\ UNCHANGED <<saveVars, authVars>>

\* if (!containers || containers.length === 0) throw
CalcRejectEmpty ==
    /\ pc = "idle"
    /\ \E cs \in ContainerLists :
        /\ Len(cs) = 0
        /\ containers' = cs
    /\ pc' = "error"
    /\ UNCHANGED <<waypoints, optimizedRoute, visited, i, allPolylinePoints,
                   totalDistance, totalDuration, requests, legLog, result>>
    /\ UNCHANGED <<saveVars, authVars>>

\* containers.map(parseFloat ...); optimizedRoute = [CODECA]; visited = new Set()
CalcStart ==
    /\ pc = "idle"
    /\ \E cs \in ContainerLists :
        /\ Len(cs) > 0
        /\ containers' = cs
        /\ waypoints' = [n \in 1..Len(cs) |->
                            [lat |-> ParseFloat(cs[n].latitude),
                             lng |-> ParseFloat(cs[n].longitude),
                             src |-> n]]
    /\ optimizedRoute' = <<CODECA>>
    /\ visited' = {}
    /\ pc' = "sequencing"
    /\ UNCHANGED <<i, allPolylinePoints, totalDistance, totalDuration, requests,
                   legLog, result>>
    /\ UNCHANGED <<saveVars, authVars>>

\* dx * dx + dy * dy.  Math.sqrt is monotone and keeps Infinity and NaN, so
\* the comparison of the roots is the comparison of these sums.
Distance(w, current) ==
    Add(Square(Sub(w.lat, current.lat)), Square(Sub(w.lng, current.lng)))

\* a faulty variant of Scan: the comparison is <=, so that among equally
\* near containers the last one wins
RECURSIVE ScanLastWins(_, _, _, _, _)
ScanLastWins(idx, best, wps, vis, current) ==
    IF idx > Len(wps) THEN best.nearest
    ELSE IF /\ idx \notin vis
            /\ Distance(wps[idx], current).k = "fin"
            /\ ~Less(best.minDistance, Distance(wps[idx], current))
         THEN ScanLastWins(idx + 1,
                           [nearest |-> idx, minDistance |-> Distance(wps[idx], current)],
                           wps, vis, current)
         ELSE ScanLastWins(idx + 1, best, wps, vis, current)

\* the for loop over the waypoints: best is (nearest, minDistance) so far
RECURSIVE Scan(_, _, _, _, _)
Scan(idx, best, wps, vis, current) ==
    IF idx > Len(wps) THEN best.nearest
    ELSE IF idx \notin vis /\ Less(Distance(wps[idx], current), best.minDistance)
         THEN Scan(idx + 1, [nearest |-> idx, minDistance |-> Distance(wps[idx], current)],
                   wps, vis, current)
         ELSE Scan(idx + 1, best, wps, vis, current)

\* nearest after the for loop; -1 when no distance was below Infinity
Nearest(wps, vis, current) ==
    Scan(1, [nearest |-> -1, minDistance |-> Infinity], wps, vis, current)

\* one iteration of while (visited.size < waypoints.length)
SequenceStep ==
    /\ pc = "sequencing"
    /\ Cardinality(visited) < Len(waypoints)
    /\ LET nearest == Nearest(waypoints, visited, optimizedRoute[Len(optimizedRoute)])
       IN IF nearest # -1
          THEN /\ optimizedRoute' = Append(optimizedRoute, waypoints[nearest])
               /\ visited' = visited \cup {nearest}
          ELSE UNCHANGED <<optimizedRoute, visited>>
    /\ UNCHANGED <<pc, containers, waypoints, i, allPolylinePoints, totalDistance,
                   totalDuration, requests, legLog, result>>
    /\ UNCHANGED <<saveVars, authVars>>

\* the loop exits; optimizedRoute.push(CODECA); the totals start at zero
SequenceDone ==
    /\ pc = "sequencing"
    /\ Cardinality(visited) >= Len(waypoints)
    /\ optimizedRoute' = Append(optimizedRoute, CODECA)
    /\ allPolylinePoints' = <<>>
    /\ totalDistance' = 0
    /\ totalDuration' = 0
    /\ i' = 1
    /\ pc' = "legs"
    /\ UNCHANGED <<containers, waypoints, visited, requests, legLog, result>>
    /\ UNCHANGED <<saveVars, authVars>>

(***************************************************************************)
(* calculateRoute: the leg loop.                                           *)
(***************************************************************************)
EarthRadiusKm == 6371
SpeedKmh == 40
UnitsPerMinute == 3000 * SpeedKmh

\* decimetres per 1e-4 degree of latitude, and of longitude at the garage's
\* latitude (cos 29.175 deg = 0.8731)
DmPerLatUnit == (EarthRadiusKm * 31416) \div 1800000
DmPerLngUnit == (DmPerLatUnit * 8731) \div 10000

\* R * c of the haversine formula in whole metres; over the few hundred
\* metres of the model the great circle is the straight line
Haversine(from, to) ==
    LET dLat == (to.lat.v - from.lat.v) * DmPerLatUnit
        dLng == (to.lng.v - from.lng.v) * DmPerLngUnit
    IN ISqrt(dLat * dLat + dLng * dLng) \div 10

\* [p.lng, p.lat]
Point(p) == <<p.lng.v, p.lat.v>>

\* the two ends of the leg being fetched
Origin == optimizedRoute[i]
Dest == optimizedRoute[i + 1]

\* for (let i = 0; i < optimizedRoute.length - 1; ...): await fetch(osrmUrl)
LegFetch ==
    /\ pc = "legs"
    /\ i < Len(optimizedRoute)
    /\ requests' = Append(requests, i)
    /\ pc' = "fetch"
    /\ UNCHANGED <<containers, waypoints, optimizedRoute, visited, i, allPolylinePoints,
                   totalDistance, totalDuration, legLog, result>>
    /\ UNCHANGED <<saveVars, authVars>>

\* a faulty variant of FallbackLeg: after the fallback the same leg is
\* fetched again
FallbackLegRetry(r, branch) ==
    /\ allPolylinePoints' = allPolylinePoints \o <<Point(Origin), Point(Dest)>>
    /\ totalDistance' = totalDistance + Haversine(Origin, Dest)
    /\ totalDuration' = totalDuration
                          + (Haversine(Origin, Dest) * UnitsPerMinute) \div (1000 * SpeedKmh)
    /\ legLog' = Append(legLog, [response |-> r, branch |-> branch,
                                  points |-> <<Point(Origin), Point(Dest)>>,
                                  distance |-> Haversine(Origin, Dest),
                                  duration |-> (Haversine(Origin, Dest) * UnitsPerMinute)
                                                  \div (1000 * SpeedKmh)])
    /\ i' = i
    /\ pc' = "legs"
    /\ UNCHANGED <<containers, waypoints, optimizedRoute, visited, requests, result>>
    /\ UNCHANGED <<saveVars, authVars>>

\* the straight line and the haversine estimate, as both fallback blocks
\* compute them
FallbackLeg(r, branch) ==
    /\ allPolylinePoints' = allPolylinePoints \o <<Point(Origin), Point(Dest)>>
    /\ totalDistance' = totalDistance + Haversine(Origin, Dest)
    /\ totalDuration' = totalDuration
                          + (Haversine(Origin, Dest) * UnitsPerMinute) \div (1000 * SpeedKmh)
    /\ legLog' = Append(legLog, [response |-> r, branch |-> branch,
                                  points |-> <<Point(Origin), Point(Dest)>>,
                                  distance |-> Haversine(Origin, Dest),
                                  duration |-> (Haversine(Origin, Dest) * UnitsPerMinute)
                                                  \div (1000 * SpeedKmh)])
    /\ i' = i + 1
    /\ pc' = "legs"
    /\ UNCHANGED <<containers, waypoints, optimizedRoute, visited, requests, result>>
    /\ UNCHANGED <<saveVars, authVars>>

\* a faulty variant of LegCatch: the catch block rethrows, as the outer one does
LegCatchRethrows ==
    /\ pc = "fetch"
    /\ \E r \in Responses : r.net # "ok"
    /\ pc' = "error"
    /\ UNCHANGED <<containers, waypoints, optimizedRoute, visited, i, allPolylinePoints,
                   totalDistance, totalDuration, requests, legLog, result>>
    /\ UNCHANGED <<saveVars, authVars>>

\* catch (error): fetch or response.json() threw
LegCatch ==
    /\ pc = "fetch"
    /\ \E r \in Responses :
        /\ r.net # "ok"
        /\ FallbackLeg(r, "catch")

\* else of if (data.code === 'Ok' && data.routes && data.routes[0])
LegOsrmError ==
    /\ pc = "fetch"
    /\ \E r \in Responses :
        /\ r.net = "ok"
        /\ ~(r.code = "Ok" /\ Len(r.routes) > 0)
        /\ FallbackLeg(r, "else")

\* if (geometry && geometry.type === 'LineString' && geometry.coordinates)
GeometryUsable(geometry) ==
    geometry.present /\ geometry.type = "LineString" /\ geometry.hasCoordinates

\* then of if (data.code === 'Ok' && data.routes && data.routes[0]): the
\* inner if has no else
LegOsrmRoute ==
    /\ pc = "fetch"
    /\ \E r \in Responses :
        /\ r.net = "ok"
        /\ r.code = "Ok" /\ Len(r.routes) > 0
        /\ LET route == r.routes[1]
           IN IF GeometryUsable(route.geometry)
              THEN /\ allPolylinePoints' = allPolylinePoints \o route.geometry.coordinates
                   /\ totalDistance' = totalDistance + route.distance
                   /\ totalDuration' = totalDuration
                                         + (route.duration * UnitsPerMinute) \div 60
                   /\ legLog' = Append(legLog,
                                    [response |-> r, branch |-> "route",
                                     points |-> route.geometry.coordinates,
                                     distance |-> route.distance,
                                     duration |-> (route.duration * UnitsPerMinute) \div 60])
              ELSE /\ UNCHANGED <<allPolylinePoints, totalDistance, totalDuration>>
                   /\ legLog' = Append(legLog,
                                    [response |-> r, branch |-> "route", points |-> <<>>,
                                     distance |-> 0, duration |-> 0])
    /\ i' = i + 1
    /\ pc' = "legs"
    /\ UNCHANGED <<containers, waypoints, optimizedRoute, visited, requests, result>>
    /\ UNCHANGED <<saveVars, authVars>>

FloorMetres == 100
FloorMinutes == 1

\* a faulty variant of FinalDistance: the total is returned as it is
FinalDistanceAsIs(total) == total

\* totalDistance > 0 ? totalDistance : 0.1
FinalDistance(total) == IF total > 0 THEN total ELSE FloorMetres

\* totalDuration > 0 ? totalDuration : 1
FinalDuration(total) == IF total > 0 THEN total ELSE FloorMinutes * UnitsPerMinute

\* a faulty variant of PolylinePoints: the concatenated polyline is returned
\* as it is
PolylinePointsAsIs(points, tour) == points

\* allPolylinePoints.length > 0 ? allPolylinePoints : optimizedRoute.map(p => [p.lng, p.lat])
PolylinePoints(points, tour) ==
    IF Len(points) > 0 THEN points ELSE [n \in 1..Len(tour) |-> Point(tour[n])]

\* the loop is over: the returned object
CalcReturn ==
    /\ pc = "legs"
    /\ i >= Len(optimizedRoute)
    /\ result' = [returned |-> TRUE,
                  polylinePoints |-> PolylinePoints(allPolylinePoints, optimizedRoute),
                  \* toFixed(2) of the kilometres, in hundredths
                  distance |-> (FinalDistance(totalDistance) + 5) \div 10,
                  \* Math.round of the minutes
                  duration |-> (2 * FinalDuration(totalDuration) + UnitsPerMinute)
                                  \div (2 * UnitsPerMinute),
                  totalDistance |-> FinalDistance(totalDistance),
                  totalDuration |-> FinalDuration(totalDuration)]
    /\ pc' = "done"
    /\ UNCHANGED <<containers, waypoints, optimizedRoute, visited, i, allPolylinePoints,
                   totalDistance, totalDuration, requests, legLog>>
    /\ UNCHANGED <<saveVars, authVars>>

NextRoute ==
    \/ CalcRejectEmpty
    \/ CalcStart
    \/ SequenceStep
    \/ SequenceDone
    \/ LegFetch
    \/ LegCatch
    \/ LegOsrmError
    \/ LegOsrmRoute
    \/ CalcReturn

SpecRoute == Init /\ [][NextRoute]_vars

(***************************************************************************)
(* saveRoute.  Each await of the handler and of the db functions is one    *)
(* step, so the requests of different clients interleave there.            *)
(***************************************************************************)
\* getDb(): _db after the call, which is also what it returns.  connects
\* tells whether drizzle(DATABASE_URL) returns rather than throws.
GetDb(connects) ==
    IF db = "null" /\ dbUrl
    THEN IF connects THEN "conn" ELSE "null"
    ELSE db

\* Math.round of a duration in tenths of a minute
Round(tenths) == (tenths + 5) \div 10

\* the request ends with an error thrown to the caller
Fails(c, routeWrite, savingsWrite) ==
    /\ sv' = [sv EXCEPT ![c].pc = "failed"]
    /\ calls' = [calls EXCEPT ![sv[c].call].status = "failed",
                              ![sv[c].call].routeWrite = routeWrite,
                              ![sv[c].call].savingsWrite = savingsWrite]

\* a client calls containers.saveRoute
SaveStart(c) ==
    /\ sv[c].pc \in {"idle", "returned", "failed"}
    /\ Len(calls) < MaxOps
    /\ \E d \in DurationInputs :
        sv' = [sv EXCEPT ![c] = [pc |-> "saveRoute", call |-> Len(calls) + 1,
                                 totalDuration |-> Round(d), routeId |-> 0]]
    /\ calls' = Append(calls, [status |-> "running", routeWrite |-> "pending",
                               savingsWrite |-> "pending", inserted |-> 0,
                               returned |-> 0])
    /\ UNCHANGED <<dbUrl, db, routeHistory, routeSavings>>
    /\ UNCHANGED <<calcVars, authVars>>

\* db.saveRoute: const db = await getDb(); if (!db) return null, upon which
\* the handler throws "Failed to save route"
SaveRouteGetDb(c) ==
    /\ sv[c].pc = "saveRoute"
    /\ \E connects \in BOOLEAN :
        /\ db' = GetDb(connects)
        /\ IF GetDb(connects) = "null"
           THEN Fails(c, "unavailable", "pending")
           ELSE /\ sv' = [sv EXCEPT ![c].pc = "insertRoute"]
                /\ UNCHANGED calls
    /\ UNCHANGED <<dbUrl, routeHistory, routeSavings>>
    /\ UNCHANGED <<calcVars, authVars>>

\* await db.insert(routeHistory).values(route): the row gets the next
\* autoincrement id
InsertRoute(c) ==
    /\ sv[c].pc = "insertRoute"
    /\ LET row == [id |-> Len(routeHistory) + 1,
                   totalDuration |-> sv[c].totalDuration,
                   status |-> "completed",
                   call |-> sv[c].call]
       IN /\ routeHistory' = Append(routeHistory, row)
          /\ calls' = [calls EXCEPT ![sv[c].call].inserted = row.id,
                                    ![sv[c].call].routeWrite = "inserted"]
    /\ sv' = [sv EXCEPT ![c].pc = "selectRoute"]
    /\ UNCHANGED <<dbUrl, db, routeSavings>>
    /\ UNCHANGED <<calcVars, authVars>>

\* a faulty variant of InsertRouteThrows: the catch block logs the error and falls
\* through to the read-back
InsertRouteSwallowed(c) ==
    /\ sv[c].pc = "insertRoute"
    /\ sv' = [sv EXCEPT ![c].pc = "selectRoute"]
    /\ calls' = [calls EXCEPT ![sv[c].call].routeWrite = "threw"]
    /\ UNCHANGED <<dbUrl, db, routeHistory, routeSavings>>
    /\ UNCHANGED <<calcVars, authVars>>

\* the insert throws: catch (error) { ...; throw error }, rethrown by the handler
InsertRouteThrows(c) ==
    /\ sv[c].pc = "insertRoute"
    /\ Fails(c, "threw", "pending")
    /\ UNCHANGED <<dbUrl, db, routeHistory, routeSavings>>
    /\ UNCHANGED <<calcVars, authVars>>

\* db.select().from(routeHistory).orderBy(routeHistory.id).limit(1): the
\* rows in ascending id order, cut to one
OrderByIdLimit1(rows) ==
    IF Len(rows) = 0 THEN <<>>
    ELSE << CHOOSE r \in {rows[n] : n \in 1..Len(rows)} :
               \A n \in 1..Len(rows) : r.id <= rows[n].id >>

\* lastRoute[0]?.id, with undefined as 0 (both are falsy)
LastRouteId(rows) ==
    IF Len(OrderByIdLimit1(rows)) = 0 THEN 0 ELSE OrderByIdLimit1(rows)[1].id

\* routeResult.insertId || routeResult[Symbol.for('drizzle.insertId')]: the
\* object db.saveRoute builds has no such symbol
ExtractRouteId(routeResult) ==
    IF routeResult.insertId # 0 THEN routeResult.insertId ELSE 0

\* the read-back returns; db.saveRoute returns { insertId: routeId }; the
\* handler extracts routeId and throws when it is falsy
SelectLastRoute(c) ==
    /\ sv[c].pc = "selectRoute"
    /\ LET routeId == ExtractRouteId([insertId |-> LastRouteId(routeHistory)])
       IN IF routeId = 0
          THEN Fails(c, "noid", "pending")
          ELSE /\ sv' = [sv EXCEPT ![c].pc = "saveRouteSavings", ![c].routeId = routeId]
               /\ UNCHANGED calls
    /\ UNCHANGED <<dbUrl, db, routeHistory, routeSavings>>
    /\ UNCHANGED <<calcVars, authVars>>

\* the read-back throws: rethrown by db.saveRoute and by the handler
SelectLastRouteThrows(c) ==
    /\ sv[c].pc = "selectRoute"
    /\ Fails(c, "noid", "pending")
    /\ UNCHANGED <<dbUrl, db, routeHistory, routeSavings>>
    /\ UNCHANGED <<calcVars, authVars>>

\* the handler returns { success: true, routeId }
Returns(c, savingsWrite) ==
    /\ sv' = [sv EXCEPT ![c].pc = "returned"]
    /\ calls' = [calls EXCEPT ![sv[c].call].status = "success",
                              ![sv[c].call].savingsWrite = savingsWrite,
                              ![sv[c].call].returned = sv[c].routeId]

\* db.saveRouteSavings: const db = await getDb(); if (!db) return null, which
\* the handler does not look at
SaveRouteSavingsGetDb(c) ==
    /\ sv[c].pc = "saveRouteSavings"
    /\ \E connects \in BOOLEAN :
        /\ db' = GetDb(connects)
        /\ IF GetDb(connects) = "null"
           THEN Returns(c, "unavailable")
           ELSE /\ sv' = [sv EXCEPT ![c].pc = "insertSavings"]
                /\ UNCHANGED calls
    /\ UNCHANGED <<dbUrl, routeHistory, routeSavings>>
    /\ UNCHANGED <<calcVars, authVars>>

\* await db.insert(routeSavings).values(savings) returns, and so does the handler
InsertSavings(c) ==
    /\ sv[c].pc = "insertSavings"
    /\ routeSavings' = Append(routeSavings, [routeId |-> sv[c].routeId, call |-> sv[c].call])
    /\ Returns(c, "ok")
    /\ UNCHANGED <<dbUrl, db, routeHistory>>
    /\ UNCHANGED <<calcVars, authVars>>

\* a faulty variant of InsertSavingsThrows: the catch block logs the error and
\* returns null
InsertSavingsSwallowed(c) ==
    /\ sv[c].pc = "insertSavings"
    /\ Returns(c, "threw")
    /\ UNCHANGED <<dbUrl, db, routeHistory, routeSavings>>
    /\ UNCHANGED <<calcVars, authVars>>

\* the insert throws: catch (error) { ...; throw error }, rethrown by the handler
InsertSavingsThrows(c) ==
    /\ sv[c].pc = "insertSavings"
    /\ Fails(c, calls[sv[c].call].routeWrite, "threw")
    /\ UNCHANGED <<dbUrl, db, routeHistory, routeSavings>>
    /\ UNCHANGED <<calcVars, authVars>>

NextSave ==
    \E c \in Clients :
        \/ SaveStart(c)
        \/ SaveRouteGetDb(c)
        \/ InsertRoute(c)
        \/ InsertRouteThrows(c)
        \/ SelectLastRoute(c)
        \/ SelectLastRouteThrows(c)
        \/ SaveRouteSavingsGetDb(c)
        \/ InsertSavings(c)
        \/ InsertSavingsThrows(c)

SpecSave == Init /\ [][NextSave]_vars

(***************************************************************************)
(* auth.register and auth.login.  Each await of the two handlers is one    *)
(* step, so the requests of different clients interleave there.  The time  *)
(* of a request is its number.                                             *)
(***************************************************************************)
MaxAuthOps == 3

Emails == {"ana@x.io", "bia@x.io"}
Passwords == {"secret1", "secret2"}
\* role: z.enum(["user", "company"])
Roles == {"user", "company"}
\* name: z.string().optional()
Undefined == "undefined"
Names == {Undefined, "Ana"}

\* bcrypt.hash(password, SALT_ROUNDS): the hash of the password under a
\* salt drawn for this call
hashPassword(password, salt) == [of |-> password, salt |-> salt]

\* bcrypt.compare(password, hash)
verifyPassword(password, hash) == hash.of = password

\* getUserByEmail when its getDb() returns d: undefined without a database
\* or without a row of that email, the row otherwise (email is unique)
getUserByEmail(d, email) ==
    IF d = "null" \/ ~ \E n \in 1..Len(users) : users[n].email = email
    THEN NoUser
    ELSE users[CHOOSE n \in 1..Len(users) : users[n].email = email]

\* the handler throws to the caller
AuthFails(c) ==
    /\ au' = [au EXCEPT ![c].pc = "failed"]
    /\ UNCHANGED tokens

\* generateToken({userId, email, role}); setTokenCookie(ctx.res, token);
\* return { success: true, user }
setTokenCookie(c, user) ==
    /\ tokens' = Append(tokens, [req |-> au[c].req, op |-> au[c].op,
                                 userId |-> user.id, email |-> user.email,
                                 role |-> user.role,
                                 password |-> au[c].password])
    /\ au' = [au EXCEPT ![c].pc = "returned", ![c].user = user]

\* a client calls auth.register
RegisterStart(c) ==
    /\ au[c].pc \in {"idle", "returned", "failed"}
    /\ authCalls < MaxAuthOps
    /\ \E e \in Emails, p \in Passwords, n \in Names, r \in Roles :
        au' = [au EXCEPT ![c] = [pc |-> "existingUser", op |-> "register",
                                 req |-> authCalls + 1, email |-> e,
                                 password |-> p, name |-> n, role |-> r,
                                 passwordHash |-> NoHash, user |-> NoUser]]
    /\ authCalls' = authCalls + 1
    /\ UNCHANGED <<users, tokens>>
    /\ UNCHANGED <<calcVars, saveVars>>

\* const existingUser = await getUserByEmail(input.email);
\* if (existingUser) throw new Error("Email already registered")
RegisterExistingUser(c) ==
    /\ au[c].pc = "existingUser"
    /\ \E connects \in BOOLEAN :
        /\ db' = GetDb(connects)
        /\ IF getUserByEmail(GetDb(connects), au[c].email) # NoUser
           THEN AuthFails(c)
           ELSE /\ au' = [au EXCEPT ![c].pc = "hashPassword"]
                /\ UNCHANGED tokens
    /\ UNCHANGED <<users, authCalls>>
    /\ UNCHANGED <<calcVars, dbUrl, routeHistory, routeSavings, sv, calls>>

\* const passwordHash = await hashPassword(input.password)
RegisterHashPassword(c) ==
    /\ au[c].pc = "hashPassword"
    /\ au' = [au EXCEPT ![c].pc = "upsertUser",
                        ![c].passwordHash = hashPassword(au[c].password, au[c].req)]
    /\ UNCHANGED <<users, authCalls, tokens>>
    /\ UNCHANGED <<calcVars, saveVars>>
\* the row of table users that upsertUser's insert creates: values holds
\* email, passwordHash and the fields given; name defaults to null
InsertedUser(c) ==
    [id |-> Len(users) + 1, email |-> au[c].email,
     passwordHash |-> au[c].passwordHash,
     name |-> IF au[c].name = Undefined THEN "null" ELSE au[c].name,
     role |-> au[c].role, lastSignedIn |-> au[c].req,
     registered |-> [name |-> IF au[c].name = Undefined THEN "null" ELSE au[c].name,
                     role |-> au[c].role]]

\* onDuplicateKeyUpdate({ set: updateSet }): updateSet holds name when given,
\* lastSignedIn and role, and neither email nor passwordHash
DuplicateKeyUpdate(row, c) ==
    [row EXCEPT !.name = IF au[c].name = Undefined THEN @ ELSE au[c].name,
                !.role = au[c].role,
                !.lastSignedIn = au[c].req]

\* await upsertUser({...}): without a database it returns silently;
\* otherwise insert ... on duplicate key update, the key being the email
RegisterUpsertUser(c) ==
    /\ au[c].pc = "upsertUser"
    /\ \E connects \in BOOLEAN :
        /\ db' = GetDb(connects)
        /\ users' =
            IF GetDb(connects) = "null"
            THEN users
            ELSE IF \E n \in 1..Len(users) : users[n].email = au[c].email
                 THEN [n \in 1..Len(users) |->
                          IF users[n].email = au[c].email
                          THEN DuplicateKeyUpdate(users[n], c)
                          ELSE users[n]]
                 ELSE Append(users, InsertedUser(c))
    /\ au' = [au EXCEPT ![c].pc = "user"]
    /\ UNCHANGED <<authCalls, tokens>>
    /\ UNCHANGED <<calcVars, dbUrl, routeHistory, routeSavings, sv, calls>>

\* the insert is rejected by the database: upsertUser rethrows and so does
\* the handler
RegisterUpsertUserThrows(c) ==
    /\ au[c].pc = "upsertUser"
    /\ \E connects \in BOOLEAN :
        /\ GetDb(connects) # "null"
        /\ db' = GetDb(connects)
    /\ AuthFails(c)
    /\ UNCHANGED <<users, authCalls>>
    /\ UNCHANGED <<calcVars, dbUrl, routeHistory, routeSavings, sv, calls>>

\* const user = await getUserByEmail(input.email);
\* if (!user) throw new Error("Failed to create user"); then the token
RegisterUser(c) ==
    /\ au[c].pc = "user"
    /\ \E connects \in BOOLEAN :
        /\ db' = GetDb(connects)
        /\ LET user == getUserByEmail(GetDb(connects), au[c].email)
           IN IF user = NoUser
              THEN AuthFails(c)
              ELSE setTokenCookie(c, user)
    /\ UNCHANGED <<users, authCalls>>
    /\ UNCHANGED <<calcVars, dbUrl, routeHistory, routeSavings, sv, calls>>

\* a client calls auth.login
LoginStart(c) ==
    /\ au[c].pc \in {"idle", "returned", "failed"}
    /\ authCalls < MaxAuthOps
    /\ \E e \in Emails, p \in Passwords :
        au' = [au EXCEPT ![c] = [pc |-> "loginUser", op |-> "login",
                                 req |-> authCalls + 1, email |-> e,
                                 password |-> p, name |-> "", role |-> "",
                                 passwordHash |-> NoHash, user |-> NoUser]]
    /\ authCalls' = authCalls + 1
    /\ UNCHANGED <<users, tokens>>
    /\ UNCHANGED <<calcVars, saveVars>>

\* const user = await getUserByEmail(input.email);
\* if (!user || !user.passwordHash) throw new Error("Invalid email or password")
LoginUser(c) ==
    /\ au[c].pc = "loginUser"
    /\ \E connects \in BOOLEAN :
        /\ db' = GetDb(connects)
        /\ LET user == getUserByEmail(GetDb(connects), au[c].email)
           IN IF user = NoUser \/ user.passwordHash = NoHash
              THEN AuthFails(c)
              ELSE /\ au' = [au EXCEPT ![c].pc = "verifyPassword", ![c].user = user]
                   /\ UNCHANGED tokens
    /\ UNCHANGED <<users, authCalls>>
    /\ UNCHANGED <<calcVars, dbUrl, routeHistory, routeSavings, sv, calls>>

\* const isPasswordValid = await verifyPassword(input.password, user.passwordHash);
\* if (!isPasswordValid) throw new Error("Invalid email or password"); then
\* the token
LoginVerifyPassword(c) ==
    /\ au[c].pc = "verifyPassword"
    /\ IF verifyPassword(au[c].password, au[c].user.passwordHash)
       THEN setTokenCookie(c, au[c].user)
       ELSE AuthFails(c)
    /\ UNCHANGED <<users, authCalls>>
    /\ UNCHANGED <<calcVars, saveVars>>

NextAuth ==
    \E c \in Clients :
        \/ RegisterStart(c)
        \/ RegisterExistingUser(c)
        \/ RegisterHashPassword(c)
        \/ RegisterUpsertUser(c)
        \/ RegisterUpsertUserThrows(c)
        \/ RegisterUser(c)
        \/ LoginStart(c)
        \/ LoginUser(c)
        \/ LoginVerifyPassword(c)

SpecAuth == Init /\ [][NextAuth]_vars

Next == NextRoute \/ NextSave \/ NextAuth

Spec == Init /\ [][Next]_vars

(***************************************************************************)
(* Properties of saveRoute.                                                *)
(***************************************************************************)
RouteRowsOf(k) == {n \in 1..Len(routeHistory) : routeHistory[n].call = k}
SavingsRowsOf(k) == {n \in 1..Len(routeSavings) : routeSavings[n].call = k}
RouteWriteFailures == {"unavailable", "threw", "noid"}

\* C1: every successful saveRoute request has created one route row and one
\* savings row whose routeId is the id of the route row that same request
\* inserted, and has returned that id.
C1_SavingsLinkedToOwnRoute ==
    \A k \in 1..Len(calls) :
        calls[k].status = "success" =>
            /\ Cardinality(RouteRowsOf(k)) = 1
            /\ Cardinality(SavingsRowsOf(k)) = 1
            /\ \A n \in SavingsRowsOf(k) : routeSavings[n].routeId = calls[k].inserted
            /\ calls[k].returned = calls[k].inserted

\* C3: a request whose route write failed or yielded no identifier (no
\* database, the insert threw, the read-back gave no id) has failed, and no
\* savings row was written by it.
C3_NoSavingsAfterFailedRouteWrite ==
    \A k \in 1..Len(calls) :
        calls[k].routeWrite \in RouteWriteFailures =>
            /\ calls[k].status = "failed"
            /\ SavingsRowsOf(k) = {}

\* C3's case: a route insert threw while earlier routes and savings were stored
C3_Witness ==
    \E k \in 1..Len(calls) :
        /\ calls[k].routeWrite = "threw"
        /\ calls[k].status = "failed"
        /\ Len(routeHistory) > 0
        /\ Len(routeSavings) > 0

\* C9: no two savings rows share a routeId, and every savings row's routeId
\* is the id of a stored route row.
C9_SavingsOneToOne ==
    /\ \A m, n \in 1..Len(routeSavings) :
          m # n => routeSavings[m].routeId # routeSavings[n].routeId
    /\ \A n \in 1..Len(routeSavings) :
          \E r \in 1..Len(routeHistory) : routeHistory[r].id = routeSavings[n].routeId

\* C10: a request whose savings insert threw after its route insert
\* succeeded has failed, never succeeded, and the route row it inserted is
\* still stored as it was written.
C10_SavingsFailureKeepsRoute ==
    \A k \in 1..Len(calls) :
        calls[k].savingsWrite = "threw" =>
            /\ calls[k].status = "failed"
            /\ calls[k].routeWrite = "inserted"
            /\ \E n \in 1..Len(routeHistory) :
                  /\ routeHistory[n].id = calls[k].inserted
                  /\ routeHistory[n].call = k
                  /\ routeHistory[n].status = "completed"

\* C10's case: a savings insert threw and the request has ended
C10_Witness ==
    \E k \in 1..Len(calls) :
        /\ calls[k].savingsWrite = "threw"
        /\ calls[k].status # "running"
        /\ calls[k].inserted > 0

(***************************************************************************)
(* Properties of calculateRoute.                                           *)
(***************************************************************************)
\* a request is past the empty check
Sequenced == pc \in {"legs", "fetch", "done"}

\* every coordinate parsed to a finite number
AllFinite(wps) == \A n \in 1..Len(wps) : IsFinite(wps[n].lat) /\ IsFinite(wps[n].lng)

\* the while loop is at an iteration that places no container: nearest
\* stays -1, nothing changes, and the same iteration follows forever
LoopStuck ==
    /\ pc = "sequencing"
    /\ Cardinality(visited) < Len(waypoints)
    /\ Nearest(waypoints, visited, optimizedRoute[Len(optimizedRoute)]) = -1

\* the positions of the tour between its ends that hold container idx
PlacesOf(idx) == {p \in 2..Len(optimizedRoute) : optimizedRoute[p].src = idx}

\* C2: for a non-empty container list with finite coordinates the sequencing
\* loop places a container at every iteration, the visited set and the tour
\* stay in step, and the tour it ends with has n + 2 entries, the garage
\* first and last and every container index exactly once in between.
C2_SequencingProducesTour ==
    (pc \notin {"idle", "error"} /\ AllFinite(waypoints)) =>
        /\ ~LoopStuck
        /\ optimizedRoute[1] = CODECA
        /\ visited = {optimizedRoute[p].src : p \in 2..(Cardinality(visited) + 1)}
        /\ pc = "sequencing" => Len(optimizedRoute) = Cardinality(visited) + 1
        /\ Sequenced =>
              /\ Len(optimizedRoute) = Len(waypoints) + 2
              /\ optimizedRoute[Len(optimizedRoute)] = CODECA
              /\ \A idx \in 1..Len(waypoints) :
                    /\ Cardinality(PlacesOf(idx)) = 1
                    /\ PlacesOf(idx) \subseteq 2..(Len(waypoints) + 1)

\* the answer is the well-formed success: code "Ok", a route, a line-string
\* geometry with at least one coordinate pair
WellFormed(r) ==
    /\ r.net = "ok"
    /\ r.code = "Ok"
    /\ Len(r.routes) > 0
    /\ r.routes[1].geometry.present
    /\ r.routes[1].geometry.type = "LineString"
    /\ r.routes[1].geometry.hasCoordinates
    /\ Len(r.routes[1].geometry.coordinates) >= 1

\* what leg n adds when its provider call fails
FallbackPoints(n) == <<Point(optimizedRoute[n]), Point(optimizedRoute[n + 1])>>
FallbackDistance(n) == Haversine(optimizedRoute[n], optimizedRoute[n + 1])

\* C4: every leg whose provider call failed (network failure or exception,
\* a code other than "Ok", or an "Ok" answer whose geometry is missing, no
\* line string or without coordinates) added the two points [from, to], the
\* haversine distance and that distance / 40 as duration.
C4_FailedLegTakesFallback ==
    \A n \in 1..Len(legLog) :
        ~WellFormed(legLog[n].response) =>
            /\ legLog[n].points = FallbackPoints(n)
            /\ legLog[n].distance = FallbackDistance(n)
            /\ legLog[n].duration = (FallbackDistance(n) * UnitsPerMinute) \div (1000 * SpeedKmh)

\* C5 as stated: the returned totals are at least 0.1 km and 1 minute.
C5_TotalsAtLeastFloor ==
    pc = "done" =>
        /\ result.totalDistance >= FloorMetres
        /\ result.totalDuration >= FloorMinutes * UnitsPerMinute

\* C5, amended: the returned totals are positive; an accumulated total that
\* is not positive is returned as 0.1 km or 1 minute, and a positive one is
\* returned as it is, however small.
C5_TotalsPositive ==
    pc = "done" =>
        /\ result.totalDistance > 0
        /\ result.totalDuration > 0
        /\ totalDistance > 0 => result.totalDistance = totalDistance
        /\ totalDistance <= 0 => result.totalDistance = FloorMetres
        /\ totalDuration > 0 => result.totalDuration = totalDuration
        /\ totalDuration <= 0 => result.totalDuration = FloorMinutes * UnitsPerMinute

\* C5's case: the accumulated distance is positive and below 0.1 km
C5_Witness ==
    /\ pc = "done"
    /\ totalDistance > 0
    /\ result.totalDistance < FloorMetres
    /\ result.totalDuration < FloorMinutes * UnitsPerMinute

\* C6: a request with a non-empty list of finite coordinates never ends in
\* an error, whatever the provider answers for each leg, and what it
\* returns has a distance, a duration and a polyline.
C6_ProviderFailuresContained ==
    (Len(containers) > 0 /\ AllFinite(waypoints)) =>
        /\ pc # "error"
        /\ pc = "done" =>
              /\ result.returned
              /\ Len(result.polylinePoints) > 0
              /\ result.totalDistance > 0
              /\ result.totalDuration > 0

\* C6's case: a request returned although every one of its legs failed
C6_Witness ==
    /\ pc = "done"
    /\ result.returned
    /\ Len(legLog) = Len(optimizedRoute) - 1
    /\ \A n \in 1..Len(legLog) : legLog[n].response.net = "reject"

\* what leg n is to add to the polyline: the provider's coordinates when
\* its answer is well-formed, the two fallback points otherwise
ExpectedPoints(n) ==
    IF WellFormed(legLog[n].response)
    THEN legLog[n].response.routes[1].geometry.coordinates
    ELSE FallbackPoints(n)

RECURSIVE ExpectedPolyline(_)
ExpectedPolyline(n) ==
    IF n = 0 THEN <<>> ELSE ExpectedPolyline(n - 1) \o ExpectedPoints(n)

\* C7: the aggregated polyline is the concatenation, in leg order, of the
\* two fallback points of each failed leg and the provider coordinates of
\* each successful leg.
C7_PolylineInLegOrder ==
    Sequenced => allPolylinePoints = ExpectedPolyline(Len(legLog))

\* C8: a request naming a container whose latitude or longitude parses to
\* no finite number ends in an error: the sequencing loop does not hang on
\* it, no tour is completed and no provider request is issued.
C8_UnparseableCoordinateRejected ==
    (pc # "idle" /\ Len(containers) > 0 /\ ~AllFinite(waypoints)) =>
        /\ pc \in {"sequencing", "error"}
        /\ ~LoopStuck
        /\ requests = <<>>

\* C11: a request with an empty container list ends in an error before
\* any sequencing: no tour is started, no provider request is issued and
\* nothing is returned.
C11_EmptyListRejected ==
    (pc # "idle" /\ Len(containers) = 0) =>
        /\ pc = "error"
        /\ optimizedRoute = <<>>
        /\ requests = <<>>
        /\ ~result.returned

\* C11's case: a request with an empty list has been made
C11_Witness ==
    /\ pc = "error"
    /\ Len(containers) = 0
    /\ requests = <<>>

\* C12: the provider requests are issued one per leg, in tour order and one
\* at a time: the n-th request is for leg n, a request is issued only when
\* every earlier leg has its result, a leg is requested once, and a
\* finished route of k waypoints has issued k - 1 requests.
C12_OneRequestPerLegInOrder ==
    /\ \A n \in 1..Len(requests) : requests[n] = n
    /\ pc \in {"idle", "sequencing", "error"} => requests = <<>>
    /\ pc = "fetch" => Len(requests) = Len(legLog) + 1 /\ i = Len(requests)
    /\ pc = "legs" => Len(requests) = Len(legLog) /\ i = Len(requests) + 1
    /\ pc = "done" =>
          /\ Len(requests) = Len(optimizedRoute) - 1
          /\ Len(legLog) = Len(requests)

\* C12's case: a route of four waypoints is finished, its first leg failed
C12_Witness ==
    /\ pc = "done"
    /\ Len(optimizedRoute) = 4
    /\ Len(requests) = 3
    /\ legLog[1].response.net = "reject"
    /\ WellFormed(legLog[2].response)

\* the marker a leg is to carry: "provider" when the provider's geometry
\* and figures were used, "fallback" when the estimate was
SourceOf(n) == IF WellFormed(legLog[n].response) THEN "provider" ELSE "fallback"

\* C13: the returned object carries one source marker per leg, "provider"
\* or "fallback", telling which legs were estimated.
C13_LegSourcesReturned ==
    pc = "done" =>
        /\ "legSources" \in DOMAIN result
        /\ Len(result.legSources) = Len(legLog)
        /\ \A n \in 1..Len(legLog) : result.legSources[n] = SourceOf(n)

\* the containers placed in the tour before position p
PlacedBefore(p) == {optimizedRoute[q].src : q \in 2..(p - 1)}

\* C14: every container in the tour was, when it was appended, unvisited,
\* at a planar distance from the tour's last point that no unvisited
\* container undercut, and the lowest-indexed of the unvisited containers
\* at that distance.
C14_GreedyNearestLowestIndex ==
    \A p \in 2..(Cardinality(visited) + 1) :
        LET current == optimizedRoute[p - 1]
            chosen == optimizedRoute[p].src
            unvisited == (1..Len(waypoints)) \ PlacedBefore(p)
        IN /\ chosen \in unvisited
           /\ optimizedRoute[p] = waypoints[chosen]
           /\ Distance(waypoints[chosen], current).k = "fin"
           /\ \A j \in unvisited :
                 /\ ~Less(Distance(waypoints[j], current),
                          Distance(waypoints[chosen], current))
                 /\ j < chosen =>
                       Distance(waypoints[j], current) # Distance(waypoints[chosen], current)

\* C14's case: two containers are equally near the garage and one is placed
C14_Witness ==
    /\ Len(waypoints) = 2
    /\ Cardinality(visited) >= 1
    /\ waypoints[1].lat # waypoints[2].lat
    /\ Distance(waypoints[1], CODECA) = Distance(waypoints[2], CODECA)
    /\ optimizedRoute[2].src = 1

\* C16: the returned polyline is never empty: when no leg added a point it
\* is the tour's own waypoints, in tour order, as (lng, lat) pairs, and
\* otherwise it is the concatenated polyline.
C16_PolylineNeverEmpty ==
    pc = "done" =>
        /\ Len(result.polylinePoints) > 0
        /\ Len(allPolylinePoints) = 0 =>
              /\ Len(result.polylinePoints) = Len(optimizedRoute)
              /\ \A n \in 1..Len(optimizedRoute) :
                    result.polylinePoints[n]
                        = <<optimizedRoute[n].lng.v, optimizedRoute[n].lat.v>>
        /\ Len(allPolylinePoints) > 0 => result.polylinePoints = allPolylinePoints

\* C16's case: a route is returned none of whose legs added a point
C16_Witness ==
    /\ pc = "done"
    /\ Len(legLog) >= 2
    /\ Len(allPolylinePoints) = 0
    /\ Len(result.polylinePoints) = Len(waypoints) + 2

\* C15: a request that has not completed can always take a step that
\* changes its state (its loops make progress towards the return, given
\* that every provider call is answered), and while a provider call is
\* outstanding its leg has no result: the fallback is taken only on an
\* answer.
C15_RequestRunsToCompletion ==
    /\ pc \in {"sequencing", "legs", "fetch"} => ENABLED <<NextRoute>>_calcVars
    /\ pc = "fetch" => Len(legLog) = Len(requests) - 1

(***************************************************************************)
(* Properties of concurrent saveRoute requests.                            *)
(***************************************************************************)
\* the client's request has inserted its route row and has not ended
InFlightInserted(c) == sv[c].pc \in {"selectRoute", "saveRouteSavings", "insertSavings"}

\* the client's request has read the route id back and has not ended
HasReadBack(c) == sv[c].pc \in {"saveRouteSavings", "insertSavings"}

\* C17: when the storage steps of two requests interleave, so that both
\* have inserted their route row while neither has ended, a request that
\* has read the route id back holds the id of the row it inserted itself.
C17_ConcurrentReadBackIsOwn ==
    \A c, d \in Clients :
        (c # d /\ HasReadBack(c) /\ InFlightInserted(d)) =>
            sv[c].routeId = calls[sv[c].call].inserted


\* C18: a session cookie for an account goes only to a request that supplied
\* the account's password, a register getting one only for the row whose
\* password hash it stored itself; and no row of users is changed after the
\* register that created it.
C18_TokenOnlyForOwnPassword ==
    /\ \A n \in 1..Len(tokens) :
        /\ verifyPassword(tokens[n].password, users[tokens[n].userId].passwordHash)
        /\ tokens[n].op = "register" =>
               users[tokens[n].userId].passwordHash.salt = tokens[n].req
    /\ \A n \in 1..Len(users) :
        /\ users[n].name = users[n].registered.name
        /\ users[n].role = users[n].registered.role
        /\ users[n].lastSignedIn = users[n].passwordHash.salt

====
